---- MODULE Spec2Model ----
(***************************************************************************)
(* A model of the Tryton "product" module (src/product.py): the Template,  *)
(* Product and TemplateCategory records, the proxy (TemplateFunction)      *)
(* fields a Product reads through its Template, the Template schema        *)
(* migration, Product's model set-up and its search, naming and price      *)
(* helpers.                                                                *)
(*                                                                         *)
(* Python values are dynamically typed; a field value is modelled as a     *)
(* tagged record: Raw(v) for a plain value, Rec(model, id) for a record    *)
(* instance (a trytond Model), Lst(items) for a tuple of record instances, *)
(* NoneVal for None.  Strings that the code takes apart or builds are      *)
(* sequences of one-character strings.                                     *)
(***************************************************************************)
EXTENDS Integers, Sequences, FiniteSets, TLC

VARIABLES
    templates,          \* product.template rows: id -> field values
    products,           \* product.product rows: id -> field values
    categories,         \* ids of the existing product.category rows
    template_category,  \* product.template-product.category rows: <<template, category>>
    last,               \* the last call made: its operation, arguments and result
    category_column,    \* the legacy column "category" of the product_template table
    product_class,      \* the class Product: its attributes that __setup__ reads and sets
    form                \* a Product instance a client edits: field -> value

dbVars == <<templates, products, categories, template_category>>
otherVars == <<category_column, product_class, form>>
vars == <<templates, products, categories, template_category, last, category_column,
          product_class, form>>

\* ------------------------------------------------------------------ bounds

MaxTemplates == 2
MaxProducts == 2

TemplateIds == 1..MaxTemplates
ProductIds == 1..MaxProducts
CategoryIds == {1, 2}
UserIds == {0, 1}

\* ------------------------------------------------------------------ values

\* None, as a record reference (ids start at 1)
NoId == 0

NoneVal == [kind |-> "none"]
Raw(v) == [kind |-> "raw", v |-> v]
Rec(model, id) == [kind |-> "model", model |-> model, id |-> id]
Lst(items) == [kind |-> "list", items |-> items]

\* isinstance(value, Model)
IsModel(value) == value.kind = "model"

\* the smallest id of 1..max not in use
NewId(used, max) == CHOOSE i \in 1..max : i \notin used /\ \A j \in 1..(i - 1) : j \in used

\* the elements of a set of integers as an ascending sequence (the order of a
\* relation's rows)
RECURSIVE Sorted(_)
Sorted(S) ==
    IF S = {} THEN <<>>
    ELSE LET m == CHOOSE x \in S : \A y \in S : x <= y
         IN <<m>> \o Sorted(S \ {m})

\* --------------------------------------------------------------- Template

default_active == TRUE
default_type == "goods"
default_consumable == FALSE

\* Product.default_get(fields_names): the only default Product declares
Product_default_get == [active |-> TRUE]

\* Template.default_products, for the transaction's user
default_products(user) ==
    IF user = 0 THEN <<>> ELSE <<Product_default_get>>

\* a create that passes the payload on as it came
Template_create_values_AsGiven(values) == values

\* Template.create's own step on one payload: values.setdefault('products', None)
Template_create_values(values) ==
    IF "products" \in DOMAIN values THEN values
    ELSE [f \in DOMAIN values \cup {"products"} |->
             IF f = "products" THEN NoneVal ELSE values[f]]

\* the defaults ModelStorage.create adds: only for the fields the values lack
WithDefaults(values, user) ==
    LET defaults == [active |-> Raw(default_active),
                     type |-> Raw(default_type),
                     consumable |-> Raw(default_consumable),
                     products |-> Lst(default_products(user))]
    IN [f \in DOMAIN values \cup DOMAIN defaults |->
           IF f \in DOMAIN values THEN values[f] ELSE defaults[f]]

\* the variants a "products" value holds: None holds none
Variants(value) == IF value.kind = "list" THEN value.items ELSE <<>>

\* the stored row of a Template
TemplateRow(v) ==
    [name |-> v.name.v, type |-> v.type.v, consumable |-> v.consumable.v,
     list_price |-> v.list_price.v, cost_price |-> v.cost_price.v,
     cost_price_method |-> v.cost_price_method.v,
     default_uom |-> v.default_uom.v, active |-> v.active.v]

\* the stored row of a Product created with `values` under Template t; the
\* fields the values lack take Product's defaults (code has none)
ProductRow(values, t) ==
    [template |-> t,
     code |-> IF "code" \in DOMAIN values THEN values.code ELSE NoneVal,
     active |-> IF "active" \in DOMAIN values THEN values.active
                ELSE Product_default_get.active]

\* ids for n new rows of a table holding `used`
RECURSIVE NewIds(_, _, _)
NewIds(used, max, n) ==
    IF n = 0 THEN <<>>
    ELSE LET i == NewId(used, max) IN <<i>> \o NewIds(used \cup {i}, max, n - 1)

SeqRange(s) == {s[i] : i \in 1..Len(s)}

\* Template.create([payload]) in a transaction of `user`
TemplateCreate(user, payload) ==
    LET values == WithDefaults(Template_create_values(payload), user)
        variants == Variants(values.products)
        n == Len(variants)
    IN /\ Cardinality(DOMAIN templates) < MaxTemplates
       /\ Cardinality(DOMAIN products) + n <= MaxProducts
       /\ LET t == NewId(DOMAIN templates, MaxTemplates)
              ids == NewIds(DOMAIN products, MaxProducts, n)
          IN /\ templates' = [i \in DOMAIN templates \cup {t} |->
                                 IF i = t THEN TemplateRow(values) ELSE templates[i]]
             /\ products' = [p \in DOMAIN products \cup SeqRange(ids) |->
                                IF p \in DOMAIN products THEN products[p]
                                ELSE LET k == CHOOSE k \in 1..n : ids[k] = p
                                     IN ProductRow(variants[k], t)]
             /\ last' = [op |-> "Template.create", user |-> user,
                         supplied |-> IF "products" \in DOMAIN payload
                                      THEN Len(Variants(payload.products)) ELSE 0,
                         template |-> t, created |-> SeqRange(ids)]
       /\ UNCHANGED <<categories, template_category, otherVars>>

\* Template.default_get(['products', ...]): what a client asks for before it
\* fills a new Template's form
TemplateDefaultGet(user) ==
    /\ last' = [op |-> "Template.default_get", user |-> user,
                products |-> default_products(user)]
    /\ UNCHANGED <<dbVars, otherVars>>

\* ---------------------------------------------------------------- Product

\* ondelete of Product.template, of TemplateCategory.template and of
\* TemplateCategory.category
Product_template_ondelete_SetNull == "SET NULL"
Product_template_ondelete == "CASCADE"
TemplateCategory_template_ondelete == "CASCADE"
TemplateCategory_category_ondelete == "CASCADE"

\* Product.create([values]); template is required and must exist
ProductCreate(values) ==
    /\ Cardinality(DOMAIN products) < MaxProducts
    /\ "template" \in DOMAIN values
    /\ values.template \in DOMAIN templates
    /\ LET p == NewId(DOMAIN products, MaxProducts)
       IN /\ products' = [i \in DOMAIN products \cup {p} |->
                             IF i = p THEN ProductRow(values, values.template)
                             ELSE products[i]]
          /\ last' = [op |-> "Product.create"]
    /\ UNCHANGED <<templates, categories, template_category, otherVars>>

\* Product.delete([p])
ProductDelete(p) ==
    /\ p \in DOMAIN products
    /\ products' = [i \in DOMAIN products \ {p} |-> products[i]]
    /\ last' = [op |-> "Product.delete"]
    /\ UNCHANGED <<templates, categories, template_category, otherVars>>

\* the rows of a table left when the rows `gone` of the table a Many2One
\* `field` points to are deleted, by the field's ondelete
\* (rows: id -> row; a deletion that RESTRICT forbids is not enabled)
AfterDelete(rows, field, ondelete, gone) ==
    IF ondelete = "CASCADE"
    THEN [i \in {j \in DOMAIN rows : rows[j][field] \notin gone} |-> rows[i]]
    ELSE [i \in DOMAIN rows |->
             IF rows[i][field] \in gone THEN [rows[i] EXCEPT ![field] = NoId]
             ELSE rows[i]]

DeleteAllowed(rows, field, ondelete, gone) ==
    ondelete = "RESTRICT" => \A i \in DOMAIN rows : rows[i][field] \notin gone

\* the same for the TemplateCategory rows, which are pairs
PairsAfterDelete(pairs, k, ondelete, gone) ==
    IF ondelete = "CASCADE" THEN {r \in pairs : r[k] \notin gone}
    ELSE {IF r[k] \in gone THEN [r EXCEPT ![k] = NoId] ELSE r : r \in pairs}

\* Template.delete([t])
TemplateDelete(t) ==
    /\ t \in DOMAIN templates
    /\ DeleteAllowed(products, "template", Product_template_ondelete, {t})
    /\ templates' = [i \in DOMAIN templates \ {t} |-> templates[i]]
    /\ products' = AfterDelete(products, "template", Product_template_ondelete, {t})
    /\ template_category' =
           PairsAfterDelete(template_category, 1, TemplateCategory_template_ondelete, {t})
    /\ last' = [op |-> "Template.delete", template |-> t,
                products |-> {p \in DOMAIN products : products[p].template = t},
                categories |-> {c \in CategoryIds : <<t, c>> \in template_category}]
    /\ UNCHANGED <<categories, otherVars>>

\* -------------------------------------------------------- TemplateCategory

\* Category.create and Category.delete (product.category, another module's)
CategoryCreate(c) ==
    /\ c \notin categories
    /\ categories' = categories \cup {c}
    /\ last' = [op |-> "Category.create"]
    /\ UNCHANGED <<templates, products, template_category, otherVars>>

CategoryDelete(c) ==
    /\ c \in categories
    /\ categories' = categories \ {c}
    /\ template_category' =
           PairsAfterDelete(template_category, 2, TemplateCategory_category_ondelete, {c})
    /\ last' = [op |-> "Category.delete"]
    /\ UNCHANGED <<templates, products, otherVars>>

\* TemplateCategory.create([{template: t, category: c}]); both are required
TemplateCategoryCreate(t, c) ==
    /\ t \in DOMAIN templates
    /\ c \in categories
    /\ <<t, c>> \notin template_category
    /\ template_category' = template_category \cup {<<t, c>>}
    /\ last' = [op |-> "TemplateCategory.create"]
    /\ UNCHANGED <<templates, products, categories, otherVars>>

\* TemplateCategory.delete of the row <<t, c>>
TemplateCategoryDelete(t, c) ==
    /\ <<t, c>> \in template_category
    /\ template_category' = template_category \ {<<t, c>>}
    /\ last' = [op |-> "TemplateCategory.delete"]
    /\ UNCHANGED <<templates, products, categories, otherVars>>

\* ------------------------------------------------------- Product.__setup__

\* the fields of Template and the class of each: the ones Template declares
\* and the ones every ModelSQL has (fields.Property is a fields.Function)
TemplateFields ==
    [name |-> "Char", type |-> "Selection", consumable |-> "Boolean",
     list_price |-> "Property", cost_price |-> "Property",
     cost_price_method |-> "Property", default_uom |-> "Many2One",
     default_uom_category |-> "Function", active |-> "Boolean",
     categories |-> "Many2Many", products |-> "One2Many",
     id |-> "Integer", create_uid |-> "Many2One", create_date |-> "Timestamp",
     write_uid |-> "Many2One", write_date |-> "Timestamp", rec_name |-> "Function"]

\* isinstance(tfield, (fields.Function, fields.One2Many, fields.Many2Many))
IsFunctionOrMany(class) ==
    class \in {"Function", "Property", "TemplateFunction", "One2Many", "Many2Many"}

\* the fields Product declares itself or has as a ModelSQL
ProductOwnFields ==
    {"template", "code", "description", "active", "list_price_uom", "cost_price_uom",
     "id", "create_uid", "create_date", "write_uid", "write_date", "rec_name"}

\* the names __setup__ may look up on Product
AttrNames == DOMAIN TemplateFields \cup ProductOwnFields

\* the class Product as src/product.py declares it, before __setup__:
\* attrs[f] is "field" for a field of its own, "proxy" for a TemplateFunction,
\* "none" for no attribute f; order[f] tells of the method order_<f>
DeclaredProductClass ==
    [has_no_template_field |-> FALSE,
     no_template_field |-> {},
     attrs |-> [f \in AttrNames |-> IF f \in ProductOwnFields THEN "field" ELSE "none"],
     order |-> [f \in AttrNames |-> IF f = "rec_name" THEN "custom" ELSE "none"]]

\* a __setup__ that installs a proxy whatever Product has under the name
Product_setup_Overwrites(class) ==
    LET excluded == (IF class.has_no_template_field THEN class.no_template_field ELSE {})
                    \cup {"products"}
        installs(attr) == attr \in DOMAIN TemplateFields /\ attr \notin excluded
    IN [has_no_template_field |-> TRUE,
        no_template_field |-> excluded,
        attrs |-> [f \in AttrNames |-> IF installs(f) THEN "proxy" ELSE class.attrs[f]],
        order |-> [f \in AttrNames |->
                      IF installs(f) /\ class.order[f] = "none"
                         /\ ~IsFunctionOrMany(TemplateFields[f])
                      THEN "generated" ELSE class.order[f]]]

\* Product.__setup__ on the class: the class it leaves
Product_setup(class) ==
    LET excluded == (IF class.has_no_template_field THEN class.no_template_field ELSE {})
                    \cup {"products"}
        installs(attr) ==
            /\ attr \in DOMAIN TemplateFields
            /\ attr \notin excluded
            /\ class.attrs[attr] \in {"none", "proxy"}
    IN [has_no_template_field |-> TRUE,
        no_template_field |-> excluded,
        attrs |-> [f \in AttrNames |-> IF installs(f) THEN "proxy" ELSE class.attrs[f]],
        order |-> [f \in AttrNames |->
                      IF installs(f) /\ class.order[f] = "none"
                         /\ ~IsFunctionOrMany(TemplateFields[f])
                      THEN "generated" ELSE class.order[f]]]

\* the class Product of a running server: declared, then set up
ProductClass == Product_setup(DeclaredProductClass)

\* the Template fields Product reads through get_template: what __setup__
\* installs a TemplateFunction for
ProxyFieldNames == {f \in AttrNames : ProductClass.attrs[f] = "proxy"}

\* Product.__setup__(), when the pool sets the model up
ProductSetup ==
    /\ product_class' = Product_setup(product_class)
    /\ last' = [op |-> "__setup__",
                declared |-> IF last.op = "__setup__" THEN last.declared ELSE product_class,
                repeated |-> last.op = "__setup__"]
    /\ UNCHANGED <<dbVars, category_column, form>>

\* no instance is being edited
NoForm == [template |-> NoneVal]

\* ------------------------------------------------------------ field access

\* product.uom rows (uom.py's data): kg and g, both of the category Weight;
\* factor is the number of base units (g) in one unit
Uoms == [id \in {1, 2} |->
            IF id = 1 THEN [symbol |-> "kg", category |-> 5, factor |-> 1000]
            ELSE [symbol |-> "g", category |-> 5, factor |-> 1]]

\* Template.on_change_with_default_uom_category, on the row of a Template
on_change_with_default_uom_category(row) ==
    IF row.default_uom # NoId THEN Raw(Uoms[row.default_uom].category) ELSE NoneVal

\* getattr(template, name) for the Template with id t: a Many2One gives a record
\* instance, a One2Many or Many2Many a tuple of them, the others the stored value
Template_getattr(t, name) ==
    LET row == templates[t]
    IN CASE name = "default_uom" ->
              IF row.default_uom # NoId THEN Rec("product.uom", row.default_uom)
              ELSE NoneVal
         [] name = "default_uom_category" ->
              LET id == on_change_with_default_uom_category(row)
              IN IF id.kind = "raw" THEN Rec("product.uom.category", id.v) ELSE NoneVal
         [] name = "categories" ->
              LET ids == Sorted({c \in CategoryIds : <<t, c>> \in template_category})
              IN Lst([i \in 1..Len(ids) |-> Rec("product.category", ids[i])])
         [] name = "products" ->
              LET ids == Sorted({p \in DOMAIN products : products[p].template = t})
              IN Lst([i \in 1..Len(ids) |-> Rec("product.product", ids[i])])
         [] OTHER -> Raw(row[name])

\* a get_template that converts a single record only
get_template_NoList(p, name) ==
    LET value == Template_getattr(products[p].template, name)
    IN IF IsModel(value) THEN Raw(value.id) ELSE value

\* Product.get_template(name) on the Product with id p
get_template(p, name) ==
    LET value == Template_getattr(products[p].template, name)
    IN IF IsModel(value) THEN Raw(value.id)
       ELSE IF value.kind = "list" /\ value.items # <<>> /\ IsModel(value.items[1])
       THEN Raw([i \in 1..Len(value.items) |-> value.items[i].id])
       ELSE value

\* bool(value) of a Char value: None and '' are false
Truthy(value) == value.kind = "raw" /\ value.v # <<>>

\* a get_rec_name that leaves the blank after the bracket out
get_rec_name_NoBlank(p) ==
    IF Truthy(products[p].code)
    THEN <<"[">> \o products[p].code.v \o <<"]">> \o get_template(p, "name").v
    ELSE get_template(p, "name").v

\* Product.get_rec_name on the Product with id p; self.name is the proxy field
get_rec_name(p) ==
    IF Truthy(products[p].code)
    THEN <<"[">> \o products[p].code.v \o <<"]", " ">> \o get_template(p, "name").v
    ELSE get_template(p, "name").v

\* reading rec_name of Product p
ProductReadRecName(p) ==
    /\ p \in DOMAIN products
    /\ last' = [op |-> "get_rec_name", product |-> p, result |-> get_rec_name(p)]
    /\ UNCHANGED <<dbVars, otherVars>>

\* Uom.compute_price(from_uom, price, to_uom) of uom.py, by the factors of the
\* two units: a price of 10 for kg is 10000 for g when 1 kg = 1000 g
compute_price(from_uom, price, to_uom) ==
    IF from_uom = NoId \/ to_uom = NoId THEN price
    ELSE (price * Uoms[from_uom].factor) \div Uoms[to_uom].factor

list_price_uom == <<"l", "i", "s", "t", "_", "p", "r", "i", "c", "e", "_", "u", "o", "m">>
cost_price_uom == <<"c", "o", "s", "t", "_", "p", "r", "i", "c", "e", "_", "u", "o", "m">>

\* the attribute of a Product a string names, for getattr
PriceAttribute(chars) ==
    CASE chars = <<"l", "i", "s", "t", "_", "p", "r", "i", "c", "e">> -> "list_price"
      [] chars = <<"c", "o", "s", "t", "_", "p", "r", "i", "c", "e">> -> "cost_price"
      [] OTHER -> "AttributeError"

\* Transaction().context.get('uom')
context_get_uom(context) == IF "uom" \in DOMAIN context THEN context.uom ELSE NoId

\* a get_price_uom that passes the two units the other way round
get_price_uom_Swapped(ps, name, context) ==
    LET field == PriceAttribute(SubSeq(name, 1, Len(name) - 4))
    IN IF context_get_uom(context) # NoId
       THEN [p \in SeqRange(ps) |->
                compute_price(context_get_uom(context), get_template(p, field).v,
                              get_template(p, "default_uom").v)]
       ELSE [p \in SeqRange(ps) |-> get_template(p, field).v]

\* Product.get_price_uom(products, name) under a transaction context; ps is the
\* list of the products' ids, the result the dict res
get_price_uom(ps, name, context) ==
    LET field == PriceAttribute(SubSeq(name, 1, Len(name) - 4))
    IN IF context_get_uom(context) # NoId
       THEN LET to_uom == context_get_uom(context)
            IN [p \in SeqRange(ps) |->
                   compute_price(get_template(p, "default_uom").v,
                                 get_template(p, field).v, to_uom)]
       ELSE [p \in SeqRange(ps) |-> get_template(p, field).v]

\* reading list_price_uom or cost_price_uom of the Products ps
ProductReadPriceUom(ps, name, context) ==
    /\ SeqRange(ps) \subseteq DOMAIN products
    /\ last' = [op |-> "get_price_uom", products |-> ps, name |-> name,
                context |-> context, result |-> get_price_uom(ps, name, context)]
    /\ UNCHANGED <<dbVars, otherVars>>

\* the fields of a Product instance: Product._fields
ProductFields == {f \in AttrNames : ProductClass.attrs[f] \in {"field", "proxy"}}

\* an on_change_template that copies every field Template has
on_change_template_EveryTemplateField(instance) ==
    [name \in DOMAIN instance |->
        IF name \in ProxyFieldNames \cup {"active"}
        THEN IF IsModel(instance.template)
             THEN Template_getattr(instance.template.id, name)
             ELSE NoneVal
        ELSE instance[name]]

\* Product.on_change_template on an instance: the instance it leaves
on_change_template(instance) ==
    [name \in DOMAIN instance |->
        IF product_class.attrs[name] = "proxy"
        THEN IF IsModel(instance.template)
             THEN Template_getattr(instance.template.id, name)
             ELSE NoneVal
        ELSE instance[name]]

\* the client sets the field template of the instance it edits (to a Template
\* or to nothing) and calls on_change_template
ProductOnChangeTemplate(selected) ==
    /\ selected # NoId => selected \in DOMAIN templates
    /\ LET template == IF selected = NoId THEN NoneVal
                       ELSE Rec("product.template", selected)
       IN form' = on_change_template([form EXCEPT !.template = template])
    /\ last' = [op |-> "on_change_template", before |-> form, selected |-> selected]
    /\ UNCHANGED <<dbVars, category_column, product_class>>

\* the client sets another field of the instance it edits
ProductEdit(field, value) ==
    /\ form[field] # value
    /\ form' = [form EXCEPT ![field] = value]
    /\ last' = [op |-> "edit"]
    /\ UNCHANGED <<dbVars, category_column, product_class>>

\* reading the proxy field `name` of Product p: a Function field's getter
ProductReadProxy(p, name) ==
    /\ p \in DOMAIN products
    /\ last' = [op |-> "get_template", product |-> p, name |-> name,
                result |-> get_template(p, name)]
    /\ UNCHANGED <<dbVars, otherVars>>

\* Template.write([t], {field: value})
TemplateWrite(t, field, value) ==
    /\ t \in DOMAIN templates
    /\ templates[t][field] # value
    /\ templates' = [templates EXCEPT ![t][field] = value]
    /\ last' = [op |-> "Template.write"]
    /\ UNCHANGED <<products, categories, template_category, otherVars>>

\* Product.write([p], {field: value}); a template written must exist
ProductWrite(p, field, value) ==
    /\ p \in DOMAIN products
    /\ products[p][field] # value
    /\ field = "template" => value \in DOMAIN templates
    /\ products' = [products EXCEPT ![p][field] = value]
    /\ last' = [op |-> "Product.write"]
    /\ UNCHANGED <<templates, categories, template_category, otherVars>>

\* ---------------------------------------------------------- specification

\* one-character strings in a row: the strings the code takes apart or builds
Widget == <<"W", "i", "d", "g", "e", "t">>
Gadget == <<"G", "a", "d", "g", "e", "t">>
C1 == <<"C", "1">>

\* the values a client sends for a new Template, with the required fields set
TemplateValues(name, uom, list_price, cost_price) ==
    [name |-> Raw(name), list_price |-> Raw(list_price), cost_price |-> Raw(cost_price),
     cost_price_method |-> Raw("fixed"), default_uom |-> Raw(uom)]

WithProducts(values, variants) ==
    [f \in DOMAIN values \cup {"products"} |->
        IF f = "products" THEN Lst(variants) ELSE values[f]]

\* the variants a payload may carry
VariantLists ==
    {<<>>, <<[code |-> Raw(C1)]>>, <<[code |-> Raw(C1)], [code |-> Raw(C1)]>>}

NoCall == [op |-> "none"]

\* a new installation's product_template table has no column "category"
NoColumn == [exists |-> FALSE, not_null |-> FALSE]

\* the database of a new installation
Init ==
    /\ templates = <<>>
    /\ products = <<>>
    /\ categories = {}
    /\ template_category = {}
    /\ last = NoCall
    /\ category_column = NoColumn
    /\ product_class = ProductClass
    /\ form = NoForm

CreateTemplate ==
    \E user \in UserIds :
        LET values == TemplateValues(Widget, 1, 20, 30)
        IN \/ TemplateCreate(user, values)
           \/ \E variants \in VariantLists : TemplateCreate(user, WithProducts(values, variants))

DefaultGet == \E user \in UserIds : TemplateDefaultGet(user)

CreateProduct ==
    \E t \in TemplateIds : ProductCreate([template |-> t, code |-> Raw(C1)])

RelinkProduct ==
    \E p \in ProductIds, t \in TemplateIds : ProductWrite(p, "template", t)

DeleteProduct == \E p \in ProductIds : ProductDelete(p)

DeleteTemplate == \E t \in TemplateIds : TemplateDelete(t)

CreateCategory == \E c \in CategoryIds : CategoryCreate(c)

DeleteCategory == \E c \in CategoryIds : CategoryDelete(c)

CreateTemplateCategory ==
    \E t \in TemplateIds, c \in CategoryIds : TemplateCategoryCreate(t, c)

Next ==
    \/ CreateTemplate
    \/ DefaultGet
    \/ CreateProduct
    \/ RelinkProduct
    \/ DeleteProduct
    \/ DeleteTemplate
    \/ CreateCategory
    \/ DeleteCategory
    \/ CreateTemplateCategory

Spec == Init /\ [][Next]_vars

\* ------------------------------------------- specification: proxy fields

\* the row of a Template created with the required fields set
NewTemplateRow(name, uom, list_price, cost_price) ==
    TemplateRow(WithDefaults(
        Template_create_values(TemplateValues(name, uom, list_price, cost_price)), 0))

\* a database with every Template created, one Product under the first, every
\* category and no TemplateCategory row
InitProxy ==
    /\ templates = [t \in TemplateIds |-> NewTemplateRow(Widget, 1, 20, 30)]
    /\ products = [p \in {1} |-> ProductRow([code |-> NoneVal], 1)]
    /\ categories = CategoryIds
    /\ template_category = {}
    /\ last = NoCall
    /\ category_column = NoColumn
    /\ product_class = ProductClass
    /\ form = NoForm

WriteName == \E t \in TemplateIds, name \in {Widget, Gadget} : TemplateWrite(t, "name", name)

WriteUom == \E t \in TemplateIds, uom \in DOMAIN Uoms : TemplateWrite(t, "default_uom", uom)

DeleteTemplateCategory ==
    \E t \in TemplateIds, c \in CategoryIds : TemplateCategoryDelete(t, c)

\* get_template is read for every proxy field, and for "active", which Template
\* has and Product keeps as a field of its own
ReadProxy ==
    \E p \in ProductIds, name \in ProxyFieldNames \cup {"active"} : ProductReadProxy(p, name)

NextProxy ==
    \/ WriteName
    \/ WriteUom
    \/ CreateTemplateCategory
    \/ DeleteTemplateCategory
    \/ RelinkProduct
    \/ ReadProxy

SpecProxy == InitProxy /\ [][NextProxy]_vars

\* ------------------------------------------------ specification: rec_name

WriteCode ==
    \E p \in ProductIds, code \in {NoneVal, Raw(<<>>), Raw(C1)} : ProductWrite(p, "code", code)

ReadRecName == \E p \in ProductIds : ProductReadRecName(p)

NextRecName ==
    \/ WriteName
    \/ WriteCode
    \/ CreateProduct
    \/ RelinkProduct
    \/ ReadRecName

SpecRecName == InitProxy /\ [][NextRecName]_vars

\* -------------------------------------------------- specification: prices

\* a database with every Template and every Product created, the Products
\* spread over the Templates
InitPrice ==
    /\ templates = [t \in TemplateIds |-> NewTemplateRow(Widget, 1, 20, 10)]
    /\ products = [p \in ProductIds |->
                      ProductRow([code |-> NoneVal], ((p - 1) % MaxTemplates) + 1)]
    /\ categories = {}
    /\ template_category = {}
    /\ last = NoCall
    /\ category_column = NoColumn
    /\ product_class = ProductClass
    /\ form = NoForm

WriteListPrice ==
    \E t \in TemplateIds, price \in {20, 2000} : TemplateWrite(t, "list_price", price)

WriteCostPrice ==
    \E t \in TemplateIds, price \in {10, 3000} : TemplateWrite(t, "cost_price", price)

\* the lists of Products a caller reads the prices of: each alone, all of
\* them, and one twice
ProductLists == {<<p>> : p \in ProductIds} \cup {Sorted(ProductIds), <<1, 1>>}

\* the transaction contexts: no 'uom' key, None under it, or the id of a unit
Contexts == {[company |-> 1], [company |-> 1, uom |-> NoId]}
            \cup {[company |-> 1, uom |-> u] : u \in DOMAIN Uoms}

ReadPriceUom ==
    \E ps \in ProductLists, name \in {list_price_uom, cost_price_uom}, context \in Contexts :
        ProductReadPriceUom(ps, name, context)

NextPrice ==
    \/ WriteUom
    \/ WriteListPrice
    \/ WriteCostPrice
    \/ ReadPriceUom

SpecPrice == InitPrice /\ [][NextPrice]_vars

\* ------------------------------------- specification: on_change_template

\* a new Product instance in the client: active by default, nothing else set
NewForm == [f \in ProductFields |-> IF f = "active" THEN Raw(TRUE) ELSE NoneVal]

InitForm ==
    /\ templates = [t \in TemplateIds |-> NewTemplateRow(Widget, 1, 20, 30)]
    /\ products = <<>>
    /\ categories = {1}
    /\ template_category = {}
    /\ last = NoCall
    /\ category_column = NoColumn
    /\ product_class = ProductClass
    /\ form = NewForm

SelectTemplate == \E selected \in TemplateIds \cup {NoId} : ProductOnChangeTemplate(selected)

EditCode == \E code \in {NoneVal, Raw(C1)} : ProductEdit("code", code)

EditActive == \E active \in BOOLEAN : ProductEdit("active", Raw(active))

NextForm ==
    \/ SelectTemplate
    \/ EditCode
    \/ EditActive
    \/ WriteName
    \/ CreateTemplateCategory

SpecForm == InitForm /\ [][NextForm]_vars

\* ------------------------------------------------ specification: __setup__

\* the class Product before its first __setup__: as src/product.py declares it,
\* or with what a class built on it declares before calling it: names in
\* _no_template_field, fields of its own, order methods of its own
InitSetup ==
    /\ templates = <<>>
    /\ products = <<>>
    /\ categories = {}
    /\ template_category = {}
    /\ last = NoCall
    /\ category_column = NoColumn
    /\ form = NoForm
    /\ \E excluded \in {{"absent"}} \cup SUBSET {"categories", "cost_price"},
          own \in SUBSET {"name", "list_price"},
          ordered \in SUBSET {"name", "cost_price", "default_uom"} :
          product_class =
              [has_no_template_field |-> excluded # {"absent"},
               no_template_field |-> IF excluded = {"absent"} THEN {} ELSE excluded,
               attrs |-> [f \in AttrNames |->
                             IF f \in own THEN "field" ELSE DeclaredProductClass.attrs[f]],
               order |-> [f \in AttrNames |->
                             IF f \in ordered THEN "custom"
                             ELSE DeclaredProductClass.order[f]]]

Setup == ProductSetup

NextSetup == Setup

SpecSetup == InitSetup /\ [][NextSetup]_vars

\* ------------------------------------------------------ search_rec_name

\* s.startswith(prefix)
startswith(s, prefix) ==
    Len(s) >= Len(prefix) /\ SubSeq(s, 1, Len(prefix)) = prefix

\* a search_rec_name that looks for '!' only
search_rec_name_BangOnly(name, clause) ==
    LET bool_op == IF startswith(clause[2], <<"!">>) THEN "AND" ELSE "OR"
    IN <<bool_op,
         <<"code">> \o SubSeq(clause, 2, Len(clause)),
         <<"template.name">> \o SubSeq(clause, 2, Len(clause))>>

\* Product.search_rec_name(name, clause); clause[1] of the code is clause[2] here
search_rec_name(name, clause) ==
    LET bool_op == IF startswith(clause[2], <<"!">>)
                      \/ startswith(clause[2], <<"n", "o", "t", " ">>)
                   THEN "AND" ELSE "OR"
    IN <<bool_op,
         <<"code">> \o SubSeq(clause, 2, Len(clause)),
         <<"template.name">> \o SubSeq(clause, 2, Len(clause))>>

\* Product.search([('rec_name', operator, operand...)])
ProductSearchRecName(clause) ==
    /\ last' = [op |-> "search_rec_name", clause |-> clause,
                result |-> search_rec_name(clause[1], clause)]
    /\ UNCHANGED <<dbVars, otherVars>>

\* the operators of a domain clause, positive and negated
PositiveOperators ==
    {<<"=">>, <<"l", "i", "k", "e">>, <<"i", "l", "i", "k", "e">>, <<"i", "n">>,
     <<"<">>, <<">">>, <<"<", "=">>, <<">", "=">>,
     <<"c", "h", "i", "l", "d", "_", "o", "f">>, <<"w", "h", "e", "r", "e">>}
NegativeOperators ==
    {<<"!", "=">>, <<"n", "o", "t", " ", "l", "i", "k", "e">>,
     <<"n", "o", "t", " ", "i", "l", "i", "k", "e">>, <<"n", "o", "t", " ", "i", "n">>,
     <<"n", "o", "t", " ", "c", "h", "i", "l", "d", "_", "o", "f">>,
     <<"n", "o", "t", " ", "w", "h", "e", "r", "e">>}

\* the clauses on rec_name: (name, operator, operand) and, with a fourth
\* element, (name, operator, operand, extra)
Clauses ==
    LET operands == {Widget, Gadget, C1, <<>>}
    IN {<<"rec_name", o, v>> : o \in PositiveOperators \cup NegativeOperators, v \in operands}
       \cup {<<"rec_name", o, v, "parent">> :
                 o \in PositiveOperators \cup NegativeOperators, v \in operands}

SearchRecName == \E clause \in Clauses : ProductSearchRecName(clause)

NextSearch == SearchRecName

SpecSearch == Init /\ [][NextSearch]_vars

\* ------------------------------------------------------ schema migration

\* TYPES, the values of Template.type, and the values of release 2.2
TYPES == {"goods", "assets", "service"}
LegacyTypes == {"stockable", "consumable"}

\* table.not_null_action('category', 'remove'); a column that is not there is
\* left alone
not_null_action_remove(column) ==
    IF column.exists THEN [column EXCEPT !.not_null = FALSE] ELSE column

\* UPDATE product_template SET consumable = TRUE WHERE type = 'consumable'
UpdateConsumable(rows) ==
    [t \in DOMAIN rows |->
        IF rows[t].type = "consumable" THEN [rows[t] EXCEPT !.consumable = TRUE]
        ELSE rows[t]]

\* UPDATE product_template SET type = 'goods'
\*   WHERE type IN ('stockable', 'consumable')
UpdateType(rows) ==
    [t \in DOMAIN rows |->
        IF rows[t].type \in {"stockable", "consumable"}
        THEN [rows[t] EXCEPT !.type = "goods"]
        ELSE rows[t]]

\* the two updates with the type rewritten first
MigrateTypes_TypeFirst(rows) == UpdateConsumable(UpdateType(rows))

\* the two updates of the migration from 2.2, in the order of the code
MigrateTypes(rows) == UpdateType(UpdateConsumable(rows))

\* a check of the column "category" that raises where the code warns
CategoryColumnCheck_Raises(column) ==
    [warned |-> FALSE, completed |-> ~column.exists]

\* if table.column_exist('category'): logger.warning(...)
CategoryColumnCheck(column) ==
    [warned |-> column.exists, completed |-> TRUE]

\* Template.__register__(module_name); a run that raised would be rolled back
Template_register ==
    LET column == not_null_action_remove(category_column)
        rows == MigrateTypes(templates)
        check == CategoryColumnCheck(column)
    IN /\ templates' = IF check.completed THEN rows ELSE templates
       /\ category_column' = IF check.completed THEN column ELSE category_column
       /\ last' = [op |-> "__register__", before |-> templates,
                   column_before |-> category_column,
                   repeated |-> last.op = "__register__" /\ last.completed,
                   warned |-> check.warned, completed |-> check.completed]
       /\ UNCHANGED <<products, categories, template_category, product_class, form>>

\* the operator drops the column "category" by hand, as the warning asks
DropCategoryColumn ==
    /\ category_column.exists
    /\ category_column' = NoColumn
    /\ last' = [op |-> "DROP COLUMN"]
    /\ UNCHANGED <<dbVars, product_class, form>>

\* a product_template table of any release: every row with a type of 2.2 or of
\* today, and the column "category" absent, nullable or not null
InitMigration ==
    /\ templates \in [TemplateIds ->
           {[NewTemplateRow(Widget, 1, 20, 30) EXCEPT !.type = type, !.consumable = c] :
               type \in TYPES \cup LegacyTypes, c \in BOOLEAN}]
    /\ products = <<>>
    /\ categories = {}
    /\ template_category = {}
    /\ last = NoCall
    /\ category_column \in {NoColumn, [exists |-> TRUE, not_null |-> FALSE],
                             [exists |-> TRUE, not_null |-> TRUE]}
    /\ product_class = ProductClass
    /\ form = NoForm

Register == Template_register

\* Template.write validates type against TYPES; the table is migrated by then
WriteType ==
    /\ \A t \in DOMAIN templates : templates[t].type \in TYPES
    /\ \E t \in TemplateIds, type \in TYPES : TemplateWrite(t, "type", type)

WriteConsumable ==
    /\ \A t \in DOMAIN templates : templates[t].type \in TYPES
    /\ \E t \in TemplateIds, c \in BOOLEAN : TemplateWrite(t, "consumable", c)

NextMigration ==
    \/ Register
    \/ WriteType
    \/ WriteConsumable
    \/ DropCategoryColumn

SpecMigration == InitMigration /\ [][NextMigration]_vars

\* ------------------------------------------------------------------ claims

\* C1, as stated: a Template.create whose payload supplies no variants creates
\* exactly one default Product when the user is not the system user (id 0) and
\* none when it is; a payload with variants creates those and no default Product.
C1_DefaultProductOnCreate ==
    last.op = "Template.create" =>
        Cardinality(last.created) =
            IF last.supplied = 0 THEN (IF last.user # 0 THEN 1 ELSE 0)
            ELSE last.supplied

\* C1, amended: Template.create creates exactly the variants its payload
\* supplies, each under the new Template, and so none when it supplies none,
\* whoever the user is; the default Product is what default_get offers for
\* "products": one for a user other than the system user, none for user 0.
C1_CreateMakesSuppliedVariantsOnly ==
    /\ last.op = "Template.create" =>
           /\ Cardinality(last.created) = last.supplied
           /\ last.created \subseteq DOMAIN products
           /\ \A p \in last.created : products[p].template = last.template
    /\ last.op = "Template.default_get" =>
           Len(last.products) = IF last.user = 0 THEN 0 ELSE 1

\* C1 witness: a user other than the system user has created a Template with
\* no variants in the payload, and no Product came with it
C1_Witness ==
    /\ last.op = "Template.create"
    /\ last.user # 0
    /\ last.supplied = 0
    /\ last.template \in DOMAIN templates
    /\ \A p \in DOMAIN products : products[p].template # last.template

\* C2: after any Template writes and re-linking, reading a proxy field of a
\* Product through get_template gives the current value of that field on the
\* Product's Template: the id for a single related record, the list of ids for
\* a non-empty collection of related records, the raw value otherwise.
C2_ProxyReadsTemplate ==
    last.op = "get_template" =>
        LET t == products[last.product].template
            row == templates[t]
            cats == {c \in CategoryIds : <<t, c>> \in template_category}
        IN CASE last.name = "default_uom" ->
                  last.result = [kind |-> "raw", v |-> row.default_uom]
             [] last.name = "default_uom_category" ->
                  last.result = [kind |-> "raw", v |-> Uoms[row.default_uom].category]
             [] last.name = "categories" ->
                  IF cats = {} THEN last.result = [kind |-> "list", items |-> <<>>]
                  ELSE /\ last.result.kind = "raw"
                       /\ Len(last.result.v) = Cardinality(cats)
                       /\ \A i \in 1..Len(last.result.v) : last.result.v[i] \in cats
                       /\ \A c \in cats : \E i \in 1..Len(last.result.v) : last.result.v[i] = c
             [] OTHER -> last.result = [kind |-> "raw", v |-> row[last.name]]

\* C2 witness: the Product was re-linked to another Template, whose name and
\* unit were written, and its categories read as the list of their two ids
C2_Witness ==
    /\ last.op = "get_template"
    /\ last.name = "categories"
    /\ products[last.product].template # 1
    /\ templates[products[last.product].template].name = Gadget
    /\ templates[products[last.product].template].default_uom = 2
    /\ last.result = [kind |-> "raw", v |-> <<1, 2>>]

\* C7: get_price_uom returns one entry per product id; with no target unit in
\* the context the entry is the product's list_price (for list_price_uom) or
\* cost_price (for cost_price_uom) unchanged, with one it is that price
\* converted from the product's default_uom into the context's unit.
C7_PriceUom ==
    last.op = "get_price_uom" =>
        /\ DOMAIN last.result = {last.products[i] : i \in 1..Len(last.products)}
        /\ \A p \in DOMAIN last.result :
              LET row == templates[products[p].template]
                  price == IF last.name = list_price_uom THEN row.list_price
                           ELSE row.cost_price
              IN IF "uom" \notin DOMAIN last.context \/ last.context.uom = NoId
                 THEN last.result[p] = price
                 ELSE last.result[p] =
                          compute_price(row.default_uom, price, last.context.uom)

\* C7 witness: cost_price_uom read for two Products with g in the context; the
\* first has default_uom kg and cost_price 10 and reads 10000, the second has
\* default_uom g and reads its cost_price
C7_Witness ==
    /\ last.op = "get_price_uom"
    /\ last.name = cost_price_uom
    /\ "uom" \in DOMAIN last.context
    /\ last.context.uom = 2
    /\ DOMAIN last.result = {1, 2}
    /\ templates[products[1].template].default_uom = 1
    /\ templates[products[1].template].cost_price = 10
    /\ last.result[1] = 10000
    /\ templates[products[2].template].default_uom = 2
    /\ templates[products[2].template].cost_price = 3000
    /\ last.result[2] = 3000

\* C8: get_rec_name returns "[" + code + "] " + name when the Product's code is
\* set and not empty, and name alone otherwise, name being the current name of
\* the Product's Template.
C8_RecName ==
    last.op = "get_rec_name" =>
        LET code == products[last.product].code
            name == templates[products[last.product].template].name
        IN IF code.kind = "raw" /\ Len(code.v) > 0
           THEN /\ Len(last.result) = Len(code.v) + Len(name) + 3
                /\ last.result[1] = "["
                /\ SubSeq(last.result, 2, Len(code.v) + 1) = code.v
                /\ last.result[Len(code.v) + 2] = "]"
                /\ last.result[Len(code.v) + 3] = " "
                /\ SubSeq(last.result, Len(code.v) + 4, Len(last.result)) = name
           ELSE last.result = name

\* C8 witness: a Product with code C1 under a Template named Widget reads
\* "[C1] Widget"
C8_Witness ==
    /\ last.op = "get_rec_name"
    /\ products[last.product].code = [kind |-> "raw", v |-> <<"C", "1">>]
    /\ last.result = <<"[", "C", "1", "]", " ", "W", "i", "d", "g", "e", "t">>

\* C3: after __register__ every row whose type was "stockable" or "consumable"
\* has type "goods", every row whose type was "consumable" has consumable set,
\* and every other row keeps its type and its consumable flag.
C3_MigratedTypes ==
    last.op = "__register__" =>
        \A t \in DOMAIN last.before :
            LET old == last.before[t]
                new == templates[t]
            IN /\ old.type \in {"stockable", "consumable"} => new.type = "goods"
               /\ old.type = "consumable" => new.consumable = TRUE
               /\ old.type \notin {"stockable", "consumable"} =>
                      new.type = old.type /\ new.consumable = old.consumable

\* C3 witness: the migration ran on a table with a "consumable" row whose flag
\* was not set and a "stockable" row
C3_Witness ==
    /\ last.op = "__register__"
    /\ \E t \in DOMAIN last.before :
           /\ last.before[t].type = "consumable"
           /\ ~last.before[t].consumable
           /\ templates[t].type = "goods"
           /\ templates[t].consumable
    /\ \E t \in DOMAIN last.before :
           /\ last.before[t].type = "stockable"
           /\ ~last.before[t].consumable
           /\ templates[t].type = "goods"
           /\ ~templates[t].consumable

\* C4: __register__ run twice in a row leaves every row's type and consumable
\* flag and the not-null state of the column "category" as the first run left
\* them, and a column "category" that is still there gives a warning and never
\* stops the migration.
C4_RegisterIdempotent ==
    last.op = "__register__" =>
        /\ last.completed
        /\ last.warned <=> last.column_before.exists
        /\ last.repeated =>
               /\ templates = last.before
               /\ category_column = last.column_before

\* C4 witness: the migration has just run a second time in a row on a table
\* that still has the column "category", after the first run rewrote a row
C4_Witness ==
    /\ last.op = "__register__"
    /\ last.repeated
    /\ last.warned
    /\ category_column = [exists |-> TRUE, not_null |-> FALSE]
    /\ \E t \in DOMAIN templates : templates[t].type = "goods" /\ templates[t].consumable

\* C6: search_rec_name gives a domain of the clauses ('code', operator,
\* operand...) and ('template.name', operator, operand...), the operator and
\* the operands as they came, joined by AND for a negated operator and by OR
\* for a positive one.
C6_SearchRecName ==
    last.op = "search_rec_name" =>
        LET clause == last.clause
            domain == last.result
        IN /\ Len(domain) = 3
           /\ domain[1] = IF clause[2] \in NegativeOperators THEN "AND" ELSE "OR"
           /\ Len(domain[2]) = Len(clause) /\ Len(domain[3]) = Len(clause)
           /\ domain[2][1] = "code"
           /\ domain[3][1] = "template.name"
           /\ \A i \in 2..Len(clause) : domain[2][i] = clause[i] /\ domain[3][i] = clause[i]

\* C6 witness: a search with "not ilike" and a fourth element gives the AND of
\* the two clauses
C6_Witness ==
    /\ last.op = "search_rec_name"
    /\ last.clause = <<"rec_name", <<"n", "o", "t", " ", "i", "l", "i", "k", "e">>,
                       <<"C", "1">>, "parent">>
    /\ last.result = <<"AND",
                       <<"code", <<"n", "o", "t", " ", "i", "l", "i", "k", "e">>,
                         <<"C", "1">>, "parent">>,
                       <<"template.name", <<"n", "o", "t", " ", "i", "l", "i", "k", "e">>,
                         <<"C", "1">>, "parent">>>>

\* C9: after __setup__, run once or again, for every field f of Template:
\* Product.f is a TemplateFunction proxy exactly when f is not excluded
\* ("products" always is) and Product declares no field of its own named f; a
\* generated order_f is there exactly when the proxy is, the Template field is
\* no function, one-to-many or many-to-many field and no order_f was declared;
\* declared fields and declared order methods are never replaced.
C9_SetupInstallsProxies ==
    last.op = "__setup__" =>
        /\ "products" \in product_class.no_template_field
        /\ \A f \in DOMAIN TemplateFields :
              /\ product_class.attrs[f] = "proxy" <=>
                     (f \notin product_class.no_template_field
                      /\ last.declared.attrs[f] # "field")
              /\ product_class.order[f] = "generated" <=>
                     /\ product_class.attrs[f] = "proxy"
                     /\ TemplateFields[f] \notin
                            {"Function", "Property", "One2Many", "Many2Many"}
                     /\ last.declared.order[f] = "none"
              /\ last.declared.attrs[f] = "field" => product_class.attrs[f] = "field"
              /\ last.declared.order[f] = "custom" => product_class.order[f] = "custom"

\* C9 witness: __setup__ has run again on a class that declared a field "name"
\* and a method order_default_uom of its own: "name" is still its field,
\* "default_uom" is a proxy with the declared order method, "type" a proxy with
\* a generated one, "categories" a proxy with none, "products" no attribute
C9_Witness ==
    /\ last.op = "__setup__"
    /\ last.repeated
    /\ last.declared.attrs["name"] = "field"
    /\ product_class.attrs["name"] = "field"
    /\ product_class.attrs["default_uom"] = "proxy"
    /\ product_class.order["default_uom"] = "custom"
    /\ product_class.attrs["type"] = "proxy"
    /\ product_class.order["type"] = "generated"
    /\ product_class.attrs["categories"] = "proxy"
    /\ product_class.order["categories"] = "none"
    /\ product_class.attrs["products"] = "none"

\* C10: on_change_template sets every proxy field of the Product to the value
\* of the field of that name on the Template now selected, or to None when
\* none is selected, and leaves the fields that are no proxies (template, code,
\* description, active, list_price_uom, cost_price_uom) as they were.
C10_OnChangeTemplate ==
    last.op = "on_change_template" =>
        /\ \A f \in ProxyFieldNames :
              form[f] = IF last.selected = NoId THEN [kind |-> "none"]
                        ELSE Template_getattr(last.selected, f)
        /\ form.template = IF last.selected = NoId THEN [kind |-> "none"]
                           ELSE [kind |-> "model", model |-> "product.template",
                                 id |-> last.selected]
        /\ \A f \in {"code", "description", "active", "list_price_uom", "cost_price_uom"} :
              form[f] = last.before[f]

\* C10 witness: an instance with a code, not active and with the fields of one
\* Template had another Template selected, and shows that one's name and
\* categories; its code and active are as before
C10_Witness ==
    /\ last.op = "on_change_template"
    /\ last.selected = 2
    /\ last.before.template = [kind |-> "model", model |-> "product.template", id |-> 1]
    /\ last.before.name = [kind |-> "raw", v |-> Widget]
    /\ form.name = [kind |-> "raw", v |-> Gadget]
    /\ form.categories.kind = "list"
    /\ form.categories.items = <<[kind |-> "model", model |-> "product.category", id |-> 1]>>
    /\ form.code = [kind |-> "raw", v |-> C1]
    /\ form.active = [kind |-> "raw", v |-> FALSE]

\* C5 (state part): every Product references an existing Template and every
\* TemplateCategory row references an existing Template
C5_References ==
    /\ \A p \in DOMAIN products : products[p].template \in DOMAIN templates
    /\ \A r \in template_category : r[1] \in DOMAIN templates

\* C5 (step part): a step that deletes Templates deletes every Product and every
\* TemplateCategory row that references one of them and leaves the others as
\* they were
C5_CascadeStep ==
    LET gone == DOMAIN templates \ DOMAIN templates'
    IN gone # {} =>
          /\ products' = [p \in {q \in DOMAIN products : products[q].template \notin gone}
                             |-> products[p]]
          /\ template_category' = {r \in template_category : r[1] \notin gone}

\* C5: in every reachable state every Product and every TemplateCategory row
\* references an existing Template, and deleting a Template deletes exactly the
\* Products and TemplateCategory rows that reference it.
C5_CascadeDelete == []C5_References /\ [][C5_CascadeStep]_vars

\* C5 witness: a Template was deleted together with a Product and a
\* TemplateCategory row of its own, and a Product and a row of another Template
\* are still there
C5_Witness ==
    /\ last.op = "Template.delete"
    /\ last.products # {}
    /\ last.categories # {}
    /\ last.template \notin DOMAIN templates
    /\ DOMAIN products # {}
    /\ template_category # {}

====
